---- MODULE Spec2Model ----
(***************************************************************************)
(* rust-toast: platform detection, the NotificationBuilder, backend        *)
(* selection (select_notifier) and the three notification backends.        *)
(*                                                                         *)
(* Text is modelled as a sequence of one-character strings, so that the    *)
(* escaping functions and the script builders work on characters.          *)
(* Option<T> is modelled as a sequence of length 0 (None) or 1 (Some(v)).  *)
(***************************************************************************)
EXTENDS Integers, Sequences, FiniteSets, TLC

VARIABLES
    target,        \* std::env::consts::OS / cfg!(target_os): fixed per build
    args,          \* Option<Args>: the parsed command line, when main() runs
    procVersion,   \* result of reading /proc/version: None or Some(content)
    builder,       \* the NotificationBuilder under construction
    calls,         \* history: the setter calls made on the builder, in order
    pc,            \* position of the caller: builder / built / selected / notified / done
    notification,  \* Option<Notification>: the value build() produced
    platform,      \* select_notifier's local `platform` (Option<Platform>)
    notifier,      \* select_notifier's local `notifier` (the chosen backend)
    detected,      \* history: results of detect_platform() during this send()
    reads,         \* history: what /proc/version read as in each is_wsl() call
    stderr,        \* diagnostic lines written by send() (eprintln!)
    invoked,       \* backend send() invocations made by this send()
    result,        \* Option<Result<()>> returned to the caller
    pureFn,        \* pure-function harness: name of the function applied
    pureIn,        \* pure-function harness: its text input
    pureOut        \* pure-function harness: its output

vars == <<target, args, procVersion, builder, calls, pc, notification, platform,
          notifier, detected, reads, stderr, invoked, result, pureFn, pureIn, pureOut>>

sendVars == <<notification, platform, notifier, detected, reads, stderr, invoked,
              result>>
pureVars == <<pureFn, pureIn, pureOut>>

\* ------------------------------------------------------------------------
\* Bounds of the model
\* ------------------------------------------------------------------------
MaxCalls == 2      \* setter calls made on one builder
MaxStrLen == 3     \* length of the texts fed to the escaping functions

\* ------------------------------------------------------------------------
\* Option<T>
\* ------------------------------------------------------------------------
None == <<>>
Some(v) == <<v>>
IsSome(o) == Len(o) = 1
unwrap_or(o, d) == IF IsSome(o) THEN o[1] ELSE d

\* ------------------------------------------------------------------------
\* platform.rs
\* ------------------------------------------------------------------------
Platform == {"Linux", "Wsl", "MacOs", "Windows", "Unknown"}

\* the build targets considered; "freebsd" stands for every other OS
Targets == {"linux", "macos", "windows", "freebsd"}

\* char::to_lowercase on the ASCII letters; every other character is kept
UpperCase == <<"A", "B", "C", "D", "E", "F", "G", "H", "I", "J", "K", "L", "M",
               "N", "O", "P", "Q", "R", "S", "T", "U", "V", "W", "X", "Y", "Z">>
LowerCase == <<"a", "b", "c", "d", "e", "f", "g", "h", "i", "j", "k", "l", "m",
               "n", "o", "p", "q", "r", "s", "t", "u", "v", "w", "x", "y", "z">>

to_lowercase_char(c) ==
    IF \E i \in DOMAIN UpperCase : UpperCase[i] = c
    THEN LowerCase[CHOOSE i \in DOMAIN UpperCase : UpperCase[i] = c]
    ELSE c

to_lowercase(s) == [i \in DOMAIN s |-> to_lowercase_char(s[i])]

\* str::contains
contains(hay, needle) ==
    \E i \in 1..(Len(hay) - Len(needle) + 1) :
        SubSeq(hay, i, i + Len(needle) - 1) = needle

\* the contents /proc/version may have, or None when it cannot be read
ProcVersionContents ==
    { <<"L", "i", "n", "u", "x", " ", "6">>,
      <<"5", "-", "m", "i", "c", "r", "o", "s", "o", "f", "t">>,
      <<"4", "-", "M", "i", "c", "r", "o", "s", "o", "f", "t">>,
      <<"W", "S", "L", "2">> }

ProcVersionReads == {None} \cup {Some(c) : c \in ProcVersionContents}

\* is_wsl comparing the contents as they are
is_wsl_case_sensitive(read) ==
    IF IsSome(read)
    THEN contains(read[1], <<"m", "i", "c", "r", "o", "s", "o", "f", "t">>)
         \/ contains(read[1], <<"w", "s", "l">>)
    ELSE FALSE

is_wsl(read) ==
    IF IsSome(read)
    THEN LET lower == to_lowercase(read[1])
         IN  contains(lower, <<"m", "i", "c", "r", "o", "s", "o", "f", "t">>)
             \/ contains(lower, <<"w", "s", "l">>)
    ELSE FALSE

detect_platform(os, read) ==
    CASE os = "macos" -> "MacOs"
      [] os = "windows" -> "Windows"
      [] os = "linux" -> IF is_wsl(read) THEN "Wsl" ELSE "Linux"
      [] OTHER -> "Unknown"

\* impl Display for Platform
Display(p) ==
    CASE p = "Linux" -> "Linux"
      [] p = "Wsl" -> "WSL (Windows Subsystem for Linux)"
      [] p = "MacOs" -> "macOS"
      [] p = "Windows" -> "Windows"
      [] p = "Unknown" -> "Unknown"

is_windows_like(p) == p \in {"Wsl", "Windows"}
\* is_unix_like counting WSL as a Unix
is_unix_like_with_wsl(p) == p \in {"Linux", "Wsl", "MacOs"}
is_unix_like(p) == p \in {"Linux", "MacOs"}

\* ------------------------------------------------------------------------
\* notifier/mod.rs: UrgencyLevel, NotificationBuilder, Notification
\* ------------------------------------------------------------------------
UrgencyLevel == {"Low", "Normal", "Critical"}
UrgencyDefault == "Normal"

Fields == {"title", "message", "timeout", "icon", "urgency", "subtitle",
           "sound", "backend"}

\* values the callers pass to the setters
TitleVals == { <<"T", "e", "s", "t">>, <<"'", "\"", "\\">> }
MessageVals == { <<"H", "e", "l", "l", "o">> }
TimeoutVals == {0, 1000}
IconVals == { <<"i", ".", "p", "n", "g">> }
SubtitleVals == { <<>>, <<"S", "u", "b">> }
SoundVals == { <<"P", "i", "n", "g">>, <<"a", "\"">> }

\* NotificationBuilder::new() / Default: every field None
NotificationBuilder_new == [f \in Fields |-> None]

\* a setter that writes a neighbouring field
title_writes_icon(b, v) == [b EXCEPT !["icon"] = Some(v)]

title(b, v) == [b EXCEPT !["title"] = Some(v)]
message(b, v) == [b EXCEPT !["message"] = Some(v)]
timeout(b, v) == [b EXCEPT !["timeout"] = Some(v)]
icon(b, v) == [b EXCEPT !["icon"] = Some(v)]
urgency(b, v) == [b EXCEPT !["urgency"] = Some(v)]
subtitle(b, v) == [b EXCEPT !["subtitle"] = Some(v)]
sound(b, v) == [b EXCEPT !["sound"] = Some(v)]
backend(b, v) == [b EXCEPT !["backend"] = Some(v)]

DefaultTitle == <<"N", "o", "t", "i", "f", "i", "c", "a", "t", "i", "o", "n">>
DefaultTimeout == 5000
DefaultIcon == <<"d", "i", "a", "l", "o", "g", "-", "i", "n", "f", "o", "r", "m",
                 "a", "t", "i", "o", "n">>
DefaultSound == <<"d", "e", "f", "a", "u", "l", "t">>

\* build() with a wrong fallback for the timeout
build_timeout_zero(b) ==
    [ title |-> unwrap_or(b["title"], DefaultTitle),
      message |-> unwrap_or(b["message"], <<>>),
      timeout |-> unwrap_or(b["timeout"], 0),
      icon |-> unwrap_or(b["icon"], DefaultIcon),
      urgency |-> unwrap_or(b["urgency"], UrgencyDefault),
      subtitle |-> unwrap_or(b["subtitle"], <<>>),
      sound |-> unwrap_or(b["sound"], DefaultSound),
      backend_override |-> b["backend"] ]

build(b) ==
    [ title |-> unwrap_or(b["title"], DefaultTitle),
      message |-> unwrap_or(b["message"], <<>>),
      timeout |-> unwrap_or(b["timeout"], DefaultTimeout),
      icon |-> unwrap_or(b["icon"], DefaultIcon),
      urgency |-> unwrap_or(b["urgency"], UrgencyDefault),
      subtitle |-> unwrap_or(b["subtitle"], <<>>),
      sound |-> unwrap_or(b["sound"], DefaultSound),
      backend_override |-> b["backend"] ]

\* ------------------------------------------------------------------------
\* cli.rs: Args, the CLI enums and their conversions, Args::into_builder
\* ------------------------------------------------------------------------
CliUrgencyLevel == {"low", "normal", "critical"}
CliBackend == {"linux", "windows", "macos"}

\* impl From<CliUrgencyLevel> for UrgencyLevel
From_CliUrgencyLevel(level) ==
    CASE level = "low" -> "Low"
      [] level = "normal" -> "Normal"
      [] level = "critical" -> "Critical"

\* impl From<CliBackend> for Platform
From_CliBackend(b) ==
    CASE b = "linux" -> "Linux"
      [] b = "windows" -> "Windows"
      [] b = "macos" -> "MacOs"

\* the values Args::parse() can give
ArgsSet ==
    [ title : TitleVals, message : MessageVals, timeout : TimeoutVals,
      icon : IconVals, urgency : CliUrgencyLevel, subtitle : SubtitleVals,
      sound : SoundVals, backend : {None} \cup {Some(b) : b \in CliBackend} ]

\* into_builder that leaves out the .sound(self.sound) link of the chain
into_builder_without_sound(a) ==
    LET b == subtitle(urgency(icon(timeout(message(title(NotificationBuilder_new,
                 a.title), a.message), a.timeout), a.icon),
                 From_CliUrgencyLevel(a.urgency)), a.subtitle)
    IN  IF IsSome(a.backend) THEN backend(b, From_CliBackend(a.backend[1])) ELSE b

into_builder(a) ==
    LET b == sound(subtitle(urgency(icon(timeout(message(title(NotificationBuilder_new,
                 a.title), a.message), a.timeout), a.icon),
                 From_CliUrgencyLevel(a.urgency)), a.subtitle), a.sound)
    IN  IF IsSome(a.backend) THEN backend(b, From_CliBackend(a.backend[1])) ELSE b

\* the setter calls into_builder makes, in order
into_builder_calls(a) ==
    << <<"title", a.title>>, <<"message", a.message>>, <<"timeout", a.timeout>>,
       <<"icon", a.icon>>, <<"urgency", From_CliUrgencyLevel(a.urgency)>>,
       <<"subtitle", a.subtitle>>, <<"sound", a.sound>> >>
    \o (IF IsSome(a.backend)
        THEN << <<"backend", From_CliBackend(a.backend[1])>> >>
        ELSE <<>>)

\* ------------------------------------------------------------------------
\* error.rs: NotificationError and Result<()>
\* ------------------------------------------------------------------------
Ok == [kind |-> "Ok"]
UnsupportedPlatform(detail) == [kind |-> "UnsupportedPlatform", detail |-> detail]
SendFailed(b, reason) == [kind |-> "SendFailed", backend |-> b, reason |-> reason]
\* impl From<std::io::Error> for NotificationError
CommandExecution(ioerr) == [kind |-> "CommandExecution", err |-> ioerr]
\* impl From<notify_rust::error::Error> for NotificationError (Linux builds)
From_notify_rust_error(err) == SendFailed("Linux", err)

\* ------------------------------------------------------------------------
\* notifier/{linux,macos,windows}.rs: the Notifier implementations
\* ------------------------------------------------------------------------
Notifiers == {"LinuxNotifier", "WindowsNotifier", "MacOsNotifier"}
NoNotifier == "none"

LinuxNotifier_is_available(os) == os = "linux"
MacOsNotifier_is_available(os) == os = "macos"
\* the Windows backend without the WSL case
WindowsNotifier_is_available_windows_only(os) == os = "windows"
WindowsNotifier_is_available(os) == os = "windows" \/ os = "linux"

is_available(n, os) ==
    CASE n = "LinuxNotifier" -> LinuxNotifier_is_available(os)
      [] n = "MacOsNotifier" -> MacOsNotifier_is_available(os)
      [] n = "WindowsNotifier" -> WindowsNotifier_is_available(os)

backend_name(n, os) ==
    CASE n = "LinuxNotifier" ->
             IF os = "linux" THEN "Linux (D-Bus)" ELSE "Linux (unavailable)"
      [] n = "MacOsNotifier" -> "macOS (osascript)"
      [] n = "WindowsNotifier" -> "Windows (PowerShell)"

\* str::replace(from, to) for a one-character pattern: every occurrence, left
\* to right, is replaced by the text `to`
RECURSIVE replace(_, _, _)
replace(s, from, to) ==
    IF s = <<>> THEN <<>>
    ELSE (IF Head(s) = from THEN to ELSE <<Head(s)>>) \o replace(Tail(s), from, to)

\* str::replacen(from, to, 1): only the first occurrence
RECURSIVE replacen1(_, _, _)
replacen1(s, from, to) ==
    IF s = <<>> THEN <<>>
    ELSE IF Head(s) = from THEN to \o Tail(s)
    ELSE <<Head(s)>> \o replacen1(Tail(s), from, to)

\* the two replacements in the wrong order
escape_applescript_quote_first(s) ==
    replace(replace(s, "\"", <<"\\", "\"">>), "\\", <<"\\", "\\">>)

\* only the double-quotes escaped
escape_applescript_quotes_only(s) == replace(s, "\"", <<"\\", "\"">>)

escape_applescript(s) ==
    replace(replace(s, "\\", <<"\\", "\\">>), "\"", <<"\\", "\"">>)

\* only the first quote doubled
escape_powershell_first_only(s) == replacen1(s, "'", <<"'", "'">>)

escape_powershell(s) == replace(s, "'", <<"'", "'">>)

\* the script with the subtitle clause appended whether or not there is one
MacOsScript_subtitle_always(n) ==
    <<"d", "i", "s", "p", "l", "a", "y", " ", "n", "o", "t", "i", "f", "i", "c",
      "a", "t", "i", "o", "n", " ", "\"">>
    \o escape_applescript(n.message)
    \o <<"\"", " ", "w", "i", "t", "h", " ", "t", "i", "t", "l", "e", " ", "\"">>
    \o escape_applescript(n.title) \o <<"\"">>
    \o <<" ", "s", "u", "b", "t", "i", "t", "l", "e", " ", "\"">>
    \o escape_applescript(n.subtitle) \o <<"\"">>
    \o <<" ", "s", "o", "u", "n", "d", " ", "n", "a", "m", "e", " ", "\"">>
    \o n.sound \o <<"\"">>

\* the AppleScript text MacOsNotifier::send builds
MacOsScript(n) ==
    LET t == escape_applescript(n.title)
        m == escape_applescript(n.message)
        st == escape_applescript(n.subtitle)
        head == <<"d", "i", "s", "p", "l", "a", "y", " ", "n", "o", "t", "i", "f",
                  "i", "c", "a", "t", "i", "o", "n", " ", "\"">>
                \o m
                \o <<"\"", " ", "w", "i", "t", "h", " ", "t", "i", "t", "l", "e",
                     " ", "\"">>
                \o t \o <<"\"">>
        sub == IF st # <<>>
               THEN <<" ", "s", "u", "b", "t", "i", "t", "l", "e", " ", "\"">>
                    \o st \o <<"\"">>
               ELSE <<>>
    IN  head \o sub
        \o <<" ", "s", "o", "u", "n", "d", " ", "n", "a", "m", "e", " ", "\"">>
        \o n.sound \o <<"\"">>

\* u32 formatted with {}: decimal digits
RECURSIVE ToDecimal(_)
ToDecimal(n) ==
    LET d == <<"0", "1", "2", "3", "4", "5", "6", "7", "8", "9">>[(n % 10) + 1]
    IN  IF n < 10 THEN <<d>> ELSE Append(ToDecimal(n \div 10), d)

\* the PowerShell text WindowsNotifier::send builds; each fixed part of the
\* format string is kept as one element, the interpolated texts as characters
WindowsScript(n) ==
    <<"\n            Add-Type -AssemblyName System.Windows.Forms\n            $balloon = New-Object System.Windows.Forms.NotifyIcon\n            $balloon.Icon = [System.Drawing.SystemIcons]::Information\n            $balloon.BalloonTipTitle = '">>
    \o escape_powershell(n.title)
    \o <<"'\n            $balloon.BalloonTipText = '">>
    \o escape_powershell(n.message)
    \o <<"'\n            $balloon.Visible = $true\n            $balloon.ShowBalloonTip(">>
    \o ToDecimal(n.timeout)
    \o <<")\n            Start-Sleep -Milliseconds 100\n            $balloon.Dispose()\n            ">>

\* String::from_utf8_lossy: an invalid byte becomes U+FFFD
InvalidByte == "<invalid>"
ReplacementChar == "<U+FFFD>"
from_utf8_lossy(bytes) ==
    [i \in DOMAIN bytes |-> IF bytes[i] = InvalidByte THEN ReplacementChar ELSE bytes[i]]

\* what Command::output() can give: the process could not be started, or it
\* ran and exited with a status and some standard-error bytes
StderrVals == { <<>>, <<"e", InvalidByte>> }
SubprocessOutcomes ==
    { [spawned |-> FALSE, success |-> FALSE, stderr |-> <<>>, ioerr |-> "NotFound"] }
    \cup { [spawned |-> TRUE, success |-> ok, stderr |-> e, ioerr |-> ""] :
             ok \in BOOLEAN, e \in StderrVals }

\* what notify_rust's show() can give
NativeOutcomes == { [ok |-> TRUE, err |-> ""], [ok |-> FALSE, err |-> "dbus error"] }

\* a result that does not look at the exit status
SubprocessResult_ignores_status(name, out) ==
    IF ~out.spawned THEN CommandExecution(out.ioerr) ELSE Ok

\* the result MacOsNotifier::send / WindowsNotifier::send return for an outcome
SubprocessResult(name, out) ==
    IF ~out.spawned THEN CommandExecution(out.ioerr)
    ELSE IF out.success THEN Ok
    ELSE SendFailed(name, from_utf8_lossy(out.stderr))

MacOsNotifier_send(n, out) ==
    [ call |-> [backend |-> "MacOsNotifier", program |-> "osascript",
                args |-> <<"-e", MacOsScript(n)>>, outcome |-> out],
      result |-> SubprocessResult("macOS", out) ]

WindowsNotifier_send(n, out) ==
    [ call |-> [backend |-> "WindowsNotifier", program |-> "powershell.exe",
                args |-> <<"-NoProfile", "-NonInteractive", "-Command",
                           WindowsScript(n)>>,
                outcome |-> out],
      result |-> SubprocessResult("Windows", out) ]

\* LinuxNotifier::send: the real one on Linux builds, the stub elsewhere
LinuxNotifier_send(n, os, out) ==
    IF os = "linux"
    THEN [ call |-> [backend |-> "LinuxNotifier", program |-> "notify_rust",
                     args |-> [summary |-> n.title, body |-> n.message,
                               icon |-> n.icon,
                               timeout |-> IF n.timeout = 0 THEN <<"Never">>
                                           ELSE <<"Milliseconds", n.timeout>>,
                               urgency |-> n.urgency],
                     outcome |-> out],
           result |-> IF out.ok THEN Ok ELSE From_notify_rust_error(out.err) ]
    ELSE [ call |-> [backend |-> "LinuxNotifier", program |-> "stub",
                     args |-> <<>>, outcome |-> out],
           result |-> UnsupportedPlatform(
                        "Linux notification requires a binary compiled for Linux") ]

\* ------------------------------------------------------------------------
\* notifier/mod.rs: select_notifier
\* ------------------------------------------------------------------------
\* the match with Wsl in the Linux arm
BackendFor_wsl_as_linux(p) ==
    CASE p \in {"Linux", "Wsl"} -> "LinuxNotifier"
      [] p = "Windows" -> "WindowsNotifier"
      [] p = "MacOs" -> "MacOsNotifier"
      [] p = "Unknown" -> NoNotifier

\* the match with a catch-all arm that falls back to the Linux backend
BackendFor_unknown_as_linux(p) ==
    CASE p \in {"Wsl", "Windows"} -> "WindowsNotifier"
      [] p = "MacOs" -> "MacOsNotifier"
      [] OTHER -> "LinuxNotifier"

\* the match on the resolved platform

BackendFor(p) ==
    CASE p = "Linux" -> "LinuxNotifier"
      [] p \in {"Wsl", "Windows"} -> "WindowsNotifier"
      [] p = "MacOs" -> "MacOsNotifier"
      [] p = "Unknown" -> NoNotifier

\* notification.backend_override.unwrap_or_else(detect_platform): the detector
\* runs only when there is no override
\* the platform resolved with the override ignored
ResolvePlatform_detect_always(n, os, read) ==
    [platform |-> detect_platform(os, read), detect |-> TRUE]

ResolvePlatform(n, os, read) ==
    IF IsSome(n.backend_override)
    THEN [platform |-> n.backend_override[1], detect |-> FALSE]
    ELSE [platform |-> detect_platform(os, read), detect |-> TRUE]

\* a selection that never rejects the notifier
AvailabilityCheck_skipped(sel, os) == None

\* send()'s eprintln! resolves the platform once more, by the same expression;
\* first the same with the override left out
DiagnosticPlatform_detect_always(n, os, read) ==
    [platform |-> detect_platform(os, read), detect |-> TRUE]

DiagnosticPlatform(n, os, read) == ResolvePlatform(n, os, read)

\* detect_platform() reads /proc/version (in is_wsl) on a linux target only
FileReads(detect, os, read) == IF detect /\ os = "linux" THEN <<read>> ELSE <<>>

\* the availability check of the selected notifier

AvailabilityCheck(sel, os) ==
    IF ~is_available(sel, os)
    THEN Some(UnsupportedPlatform(
                <<backend_name(sel, os), " notifier is not available on this platform">>))
    ELSE None

\* select_notifier: the values of its locals and the error it returns, if any
select_notifier(n, os, read) ==
    LET r == ResolvePlatform(n, os, read)
        sel == BackendFor(r.platform)
    IN  [ platform |-> r.platform,
          detect |-> r.detect,
          notifier |-> sel,
          err |-> IF sel = NoNotifier
                  THEN Some(UnsupportedPlatform(
                              "Unknown platform. Use --backend to specify manually."))
                  ELSE AvailabilityCheck(sel, os) ]

\* ------------------------------------------------------------------------
\* Initial state: a build for some target, a fresh builder
\* ------------------------------------------------------------------------
NoSend ==
    /\ notification = None
    /\ platform = None
    /\ notifier = NoNotifier
    /\ detected = <<>>
    /\ reads = <<>>
    /\ stderr = <<>>
    /\ invoked = <<>>
    /\ result = None

NoPure ==
    /\ pureFn = "none"
    /\ pureIn = <<>>
    /\ pureOut = <<>>

Init ==
    /\ target \in Targets
    /\ args = None
    /\ procVersion \in ProcVersionReads
    /\ builder = NotificationBuilder_new
    /\ calls = <<>>
    /\ pc = "builder"
    /\ NoSend
    /\ NoPure

\* ------------------------------------------------------------------------
\* The builder's setters
\* ------------------------------------------------------------------------
Setter(f, v, after) ==
    /\ pc = "builder"
    /\ Len(calls) < MaxCalls
    /\ builder' = after
    /\ calls' = Append(calls, <<f, v>>)
    /\ UNCHANGED <<target, args, procVersion, pc, sendVars, pureVars>>

Title == \E v \in TitleVals : Setter("title", v, title(builder, v))
Message == \E v \in MessageVals : Setter("message", v, message(builder, v))
Timeout == \E v \in TimeoutVals : Setter("timeout", v, timeout(builder, v))
Icon == \E v \in IconVals : Setter("icon", v, icon(builder, v))
Urgency == \E v \in UrgencyLevel : Setter("urgency", v, urgency(builder, v))
Subtitle == \E v \in SubtitleVals : Setter("subtitle", v, subtitle(builder, v))
Sound == \E v \in SoundVals : Setter("sound", v, sound(builder, v))
Backend == \E v \in Platform : Setter("backend", v, backend(builder, v))

\* main(): Args::parse() and args.into_builder()
IntoBuilder ==
    /\ pc = "builder"
    /\ calls = <<>>
    /\ args = None
    /\ \E a \in ArgsSet :
          /\ args' = Some(a)
          /\ builder' = into_builder(a)
          /\ calls' = into_builder_calls(a)
    /\ UNCHANGED <<target, procVersion, pc, sendVars, pureVars>>

\* ------------------------------------------------------------------------
\* build(), and the steps of send(): build, select_notifier, eprintln!,
\* notifier.send. `builder` keeps the value build() consumed.
\* ------------------------------------------------------------------------
Build ==
    /\ pc = "builder"
    /\ notification' = Some(build(builder))
    /\ pc' = "built"
    /\ UNCHANGED <<target, args, procVersion, builder, calls, platform, notifier,
                   detected, reads, stderr, invoked, result, pureVars>>

SelectNotifier ==
    /\ pc = "built"
    /\ LET s == select_notifier(notification[1], target, procVersion)
       IN  /\ platform' = Some(s.platform)
           /\ notifier' = s.notifier
           /\ detected' = IF s.detect THEN Append(detected, s.platform) ELSE detected
           /\ reads' = reads \o FileReads(s.detect, target, procVersion)
           /\ IF IsSome(s.err)
              THEN /\ result' = s.err
                   /\ pc' = "done"
              ELSE /\ result' = result
                   /\ pc' = "selected"
    /\ UNCHANGED <<target, args, procVersion, builder, calls, notification, stderr,
                   invoked, pureVars>>

Diagnostic ==
    /\ pc = "selected"
    /\ LET r == DiagnosticPlatform(notification[1], target, procVersion)
       IN  /\ stderr' = Append(stderr, [platform |-> Display(r.platform),
                                        backend |-> backend_name(notifier, target)])
           /\ detected' = IF r.detect THEN Append(detected, r.platform) ELSE detected
           /\ reads' = reads \o FileReads(r.detect, target, procVersion)
    /\ pc' = "notified"
    /\ UNCHANGED <<target, args, procVersion, builder, calls, notification, platform,
                   notifier, invoked, result, pureVars>>

\* notifier.send tried a second time after a failure
Finish_retry(r) ==
    /\ invoked' = IF r.result = Ok THEN Append(invoked, r.call)
                  ELSE Append(Append(invoked, r.call), r.call)
    /\ result' = Some(r.result)
    /\ pc' = "done"
    /\ UNCHANGED <<target, args, procVersion, builder, calls, notification, platform,
                   notifier, detected, reads, stderr, pureVars>>

Finish(r) ==
    /\ invoked' = Append(invoked, r.call)
    /\ result' = Some(r.result)
    /\ pc' = "done"
    /\ UNCHANGED <<target, args, procVersion, builder, calls, notification, platform,
                   notifier, detected, reads, stderr, pureVars>>

LinuxSend ==
    /\ pc = "notified"
    /\ notifier = "LinuxNotifier"
    /\ \E out \in NativeOutcomes : Finish(LinuxNotifier_send(notification[1], target, out))

MacOsSend ==
    /\ pc = "notified"
    /\ notifier = "MacOsNotifier"
    /\ \E out \in SubprocessOutcomes : Finish(MacOsNotifier_send(notification[1], out))

WindowsSend ==
    /\ pc = "notified"
    /\ notifier = "WindowsNotifier"
    /\ \E out \in SubprocessOutcomes : Finish(WindowsNotifier_send(notification[1], out))

\* the caller starts over with NotificationBuilder::new()
New ==
    /\ pc \in {"built", "done"}
    /\ builder' = NotificationBuilder_new
    /\ calls' = <<>>
    /\ pc' = "builder"
    /\ notification' = None
    /\ platform' = None
    /\ notifier' = NoNotifier
    /\ detected' = <<>>
    /\ reads' = <<>>
    /\ stderr' = <<>>
    /\ invoked' = <<>>
    /\ result' = None
    /\ args' = None
    /\ UNCHANGED <<target, procVersion, pureVars>>

\* the environment: /proc/version reads differently from now on
ProcVersionChange ==
    /\ \E r \in ProcVersionReads \ {procVersion} : procVersion' = r
    /\ UNCHANGED <<target, args, builder, calls, pc, sendVars, pureVars>>

Next ==
    \/ Title \/ Message \/ Timeout \/ Icon \/ Urgency \/ Subtitle \/ Sound \/ Backend
    \/ IntoBuilder
    \/ Build
    \/ SelectNotifier
    \/ Diagnostic
    \/ LinuxSend \/ MacOsSend \/ WindowsSend
    \/ New
    \/ ProcVersionChange

Spec == Init /\ [][Next]_vars

\* ------------------------------------------------------------------------
\* The pure functions applied to bounded inputs
\* ------------------------------------------------------------------------
Alphabet == {"a", "\\", "\"", "'"}

RECURSIVE TextsOfLen(_)
TextsOfLen(n) ==
    IF n = 0 THEN { <<>> }
    ELSE { Append(t, c) : t \in TextsOfLen(n - 1), c \in Alphabet }

Texts == UNION { TextsOfLen(n) : n \in 0..MaxStrLen }

\* the inputs of the unit tests in macos.rs and windows.rs
TestInputs ==
    { <<"H", "e", "l", "l", "o">>,
      <<"H", "e", "l", "l", "o", " ", "\"", "W", "o", "r", "l", "d", "\"">>,
      <<"p", "a", "t", "h", "\\", "t", "o", "\\", "f", "i", "l", "e">>,
      <<"S", "a", "y", " ", "\"", "H", "i", "\\", "\"", " ", "t", "h", "e", "r", "e">>,
      <<"I", "t", "'", "s", " ", "w", "o", "r", "k", "i", "n", "g">>,
      <<"'", "H", "e", "l", "l", "o", "'", " ", "'", "W", "o", "r", "l", "d", "'">> }

\* what /proc/version reads as when detect_platform is tried on its own
DetectReads ==
    ProcVersionReads
    \cup { Some(<<>>),
           Some(<<"M", "I", "C", "R", "O", "S", "O", "F", "T">>),
           Some(<<"6", "-", "w", "S", "l">>),
           Some(<<"m", "i", "c", "r", "o", " ", "s", "o", "f", "t", " ", "w", "s">>) }

PureInit ==
    /\ target \in Targets
    /\ args = None
    /\ procVersion \in DetectReads
    /\ builder = NotificationBuilder_new
    /\ calls = <<>>
    /\ pc = "builder"
    /\ NoSend
    /\ pureFn = "none"
    /\ pureIn \in Texts \cup TestInputs
    /\ pureOut = <<>>

Apply(fn, out) ==
    /\ pureFn' = fn
    /\ pureOut' = out
    /\ UNCHANGED <<target, args, procVersion, builder, calls, pc, sendVars, pureIn>>

EscapeApplescript == Apply("escape_applescript", escape_applescript(pureIn))
EscapePowershell == Apply("escape_powershell", escape_powershell(pureIn))
LinuxIsAvailable ==
    Apply("LinuxNotifier::is_available", is_available("LinuxNotifier", target))
MacOsIsAvailable ==
    Apply("MacOsNotifier::is_available", is_available("MacOsNotifier", target))
WindowsIsAvailable ==
    Apply("WindowsNotifier::is_available", is_available("WindowsNotifier", target))

DetectPlatform == Apply("detect_platform", detect_platform(target, procVersion))
PlatformPredicates ==
    \E p \in Platform :
        Apply("platform_predicates",
              [platform |-> p, windows_like |-> is_windows_like(p),
               unix_like |-> is_unix_like(p)])

PureNext ==
    \/ EscapeApplescript \/ EscapePowershell
    \/ LinuxIsAvailable \/ MacOsIsAvailable \/ WindowsIsAvailable
    \/ DetectPlatform
    \/ PlatformPredicates

PureSpec == PureInit /\ [][PureNext]_vars

\* ------------------------------------------------------------------------
\* Properties
\* ------------------------------------------------------------------------
Selected == IsSome(platform)
Override == notification[1].backend_override

\* C1: after select_notifier ran, the backend it picked is the one the mapping
\* gives for the resolved platform: Linux -> Linux backend, Wsl and Windows ->
\* Windows backend, MacOs -> macOS backend; for Unknown no backend is chosen
\* and send() has failed with UnsupportedPlatform.
C1_SelectMapping ==
    Selected =>
        LET p == platform[1]
        IN  /\ p = "Linux" => notifier = "LinuxNotifier"
            /\ p = "Wsl" => notifier = "WindowsNotifier"
            /\ p = "Windows" => notifier = "WindowsNotifier"
            /\ p = "MacOs" => notifier = "MacOsNotifier"
            /\ p = "Unknown" =>
                  /\ notifier = NoNotifier
                  /\ pc = "done"
                  /\ IsSome(result)
                  /\ result[1].kind = "UnsupportedPlatform"

C1_Witness ==
    /\ pc = "selected"
    /\ platform = Some("Wsl")
    /\ notifier = "WindowsNotifier"

\* C2: the platform select_notifier uses is the override whenever one is
\* present (the detector is then not run at all) and the detector's result
\* only when it is absent; with override MacOs the macOS backend is selected
\* on every build target.
C2_OverrideWins ==
    Selected =>
        /\ IsSome(Override) => platform = Override /\ detected = <<>>
        /\ Override = None =>
              /\ Len(detected) >= 1
              /\ platform[1] = detected[1]
              /\ target = "linux" => platform[1] \in {"Linux", "Wsl"}
              /\ target = "macos" => platform[1] = "MacOs"
              /\ target = "windows" => platform[1] = "Windows"
              /\ target = "freebsd" => platform[1] = "Unknown"
        /\ Override = Some("MacOs") => notifier = "MacOsNotifier"

C2_Witness ==
    /\ Selected
    /\ Override = Some("MacOs")
    /\ target = "linux"
    /\ procVersion = Some(<<"W", "S", "L", "2">>)
    /\ notifier = "MacOsNotifier"

\* C3: whenever the selected backend is not available on the build target,
\* send() has ended with UnsupportedPlatform naming that backend and the
\* backend's send was never invoked.
Unavailable(n) ==
    \/ n = "LinuxNotifier" /\ target # "linux"
    \/ n = "MacOsNotifier" /\ target # "macos"
    \/ n = "WindowsNotifier" /\ target \notin {"windows", "linux"}

C3_UnavailableRejected ==
    (notifier \in Notifiers /\ Unavailable(notifier)) =>
        /\ pc = "done"
        /\ IsSome(result)
        /\ result[1].kind = "UnsupportedPlatform"
        /\ result[1].detail[1] = backend_name(notifier, target)
        /\ invoked = <<>>

C3_Witness ==
    /\ pc = "done"
    /\ Override = Some("Linux")
    /\ target = "macos"
    /\ notifier = "LinuxNotifier"
    /\ result = Some(UnsupportedPlatform(
                  <<"Linux (unavailable)", " notifier is not available on this platform">>))

\* C4: with no override and a detected platform of Unknown, send() returns
\* UnsupportedPlatform, no diagnostic line was written and no backend was
\* invoked.
C4_UnknownFails ==
    (Selected /\ Override = None /\ detected # <<>> /\ detected[1] = "Unknown") =>
        /\ pc = "done"
        /\ result = Some(UnsupportedPlatform(
                      "Unknown platform. Use --backend to specify manually."))
        /\ stderr = <<>>
        /\ invoked = <<>>

C4_Witness ==
    /\ pc = "done"
    /\ Override = None
    /\ detected = <<"Unknown">>
    /\ IsSome(result)
    /\ result[1].kind = "UnsupportedPlatform"

\* C5: in every Notification built through the builder, backend_override is
\* absent or one of Linux, Wsl, MacOs, Windows, never Unknown.
C5_OverrideNeverUnknown ==
    IsSome(notification) =>
        Override \in {None} \cup {Some(p) : p \in Platform \ {"Unknown"}}

\* C6: build() of a fresh builder yields the documented defaults, and for any
\* builder build() gives every unset field its default and every set field
\* the value it was set to.
C6_BuildDefaults ==
    IsSome(notification) =>
        LET n == notification[1]
            got(f, d) == IF builder[f] = None THEN d ELSE builder[f][1]
        IN  /\ n.title = got("title", <<"N", "o", "t", "i", "f", "i", "c", "a", "t",
                                         "i", "o", "n">>)
            /\ n.message = got("message", <<>>)
            /\ n.timeout = got("timeout", 5000)
            /\ n.urgency = got("urgency", "Normal")
            /\ n.icon = got("icon", <<"d", "i", "a", "l", "o", "g", "-", "i", "n", "f",
                                       "o", "r", "m", "a", "t", "i", "o", "n">>)
            /\ n.sound = got("sound", <<"d", "e", "f", "a", "u", "l", "t">>)
            /\ n.subtitle = got("subtitle", <<>>)
            /\ n.backend_override = builder["backend"]
            /\ calls = <<>> =>
                  /\ n.title = <<"N", "o", "t", "i", "f", "i", "c", "a", "t", "i", "o", "n">>
                  /\ n.message = <<>>
                  /\ n.timeout = 5000
                  /\ n.urgency = "Normal"
                  /\ n.icon = <<"d", "i", "a", "l", "o", "g", "-", "i", "n", "f", "o",
                                "r", "m", "a", "t", "i", "o", "n">>
                  /\ n.sound = <<"d", "e", "f", "a", "u", "l", "t">>
                  /\ n.subtitle = <<>>
                  /\ n.backend_override = None

C6_Witness ==
    /\ pc = "built"
    /\ IsSome(builder["title"])
    /\ builder["timeout"] = None
    /\ notification[1].title = builder["title"][1]
    /\ notification[1].timeout = 5000

\* C7: after any sequence of setter calls every builder field holds the value
\* of the last call made for that field, or is unset if there was none; so a
\* setter changes its own field only and the order in which different fields
\* are set does not matter.
LastSet(f) ==
    LET at == {i \in DOMAIN calls : calls[i][1] = f}
    IN  IF at = {} THEN None
        ELSE Some(calls[CHOOSE i \in at : \A j \in at : j <= i][2])

C7_SettersIndependent == \A f \in Fields : builder[f] = LastSet(f)

C7_Witness ==
    /\ Len(calls) = 2
    /\ calls[1][1] = "title"
    /\ calls[2][1] = "icon"
    /\ builder["title"] = Some(calls[1][2])
    /\ builder["icon"] = Some(calls[2][2])

\* C8: escape_applescript puts a backslash in front of every backslash and
\* every double-quote of its input and keeps every other character, in place;
\* the quotes' backslashes are not escaped again.
Special(c) == c = "\\" \/ c = "\""
Extra(s, i, P(_)) == Cardinality({j \in 1..i : P(s[j])})

C8_EscapeApplescript ==
    pureFn = "escape_applescript" =>
        /\ Len(pureOut) = Len(pureIn) + Extra(pureIn, Len(pureIn), Special)
        /\ \A i \in DOMAIN pureIn :
              LET k == i + Extra(pureIn, i - 1, Special)
              IN  IF Special(pureIn[i])
                  THEN pureOut[k] = "\\" /\ pureOut[k + 1] = pureIn[i]
                  ELSE pureOut[k] = pureIn[i]
        /\ (\A i \in DOMAIN pureIn : ~Special(pureIn[i])) => pureOut = pureIn
        /\ pureIn = <<"H", "e", "l", "l", "o", " ", "\"", "W", "o", "r", "l", "d", "\"">>
             => pureOut = <<"H", "e", "l", "l", "o", " ", "\\", "\"", "W", "o", "r",
                            "l", "d", "\\", "\"">>
        /\ pureIn = <<"p", "a", "t", "h", "\\", "t", "o", "\\", "f", "i", "l", "e">>
             => pureOut = <<"p", "a", "t", "h", "\\", "\\", "t", "o", "\\", "\\", "f",
                            "i", "l", "e">>
        /\ pureIn = <<"S", "a", "y", " ", "\"", "H", "i", "\\", "\"", " ", "t", "h",
                      "e", "r", "e">>
             => pureOut = <<"S", "a", "y", " ", "\\", "\"", "H", "i", "\\", "\\", "\\",
                            "\"", " ", "t", "h", "e", "r", "e">>

C8_Witness ==
    /\ pureFn = "escape_applescript"
    /\ pureIn = <<"S", "a", "y", " ", "\"", "H", "i", "\\", "\"", " ", "t", "h", "e",
                  "r", "e">>
    /\ Len(pureOut) = 18

\* C9: escape_powershell doubles every single-quote of its input, all of
\* them, and keeps every other character in place.
Quote(c) == c = "'"

C9_EscapePowershell ==
    pureFn = "escape_powershell" =>
        /\ Len(pureOut) = Len(pureIn) + Extra(pureIn, Len(pureIn), Quote)
        /\ \A i \in DOMAIN pureIn :
              LET k == i + Extra(pureIn, i - 1, Quote)
              IN  /\ pureOut[k] = pureIn[i]
                  /\ Quote(pureIn[i]) => pureOut[k + 1] = "'"
        /\ (\A i \in DOMAIN pureIn : ~Quote(pureIn[i])) => pureOut = pureIn
        /\ pureIn = <<"I", "t", "'", "s", " ", "w", "o", "r", "k", "i", "n", "g">>
             => pureOut = <<"I", "t", "'", "'", "s", " ", "w", "o", "r", "k", "i", "n", "g">>
        /\ pureIn = <<"'", "H", "e", "l", "l", "o", "'", " ", "'", "W", "o", "r", "l",
                      "d", "'">>
             => pureOut = <<"'", "'", "H", "e", "l", "l", "o", "'", "'", " ", "'", "'",
                            "W", "o", "r", "l", "d", "'", "'">>

C9_Witness ==
    /\ pureFn = "escape_powershell"
    /\ pureIn = <<"'", "H", "e", "l", "l", "o", "'", " ", "'", "W", "o", "r", "l", "d", "'">>
    /\ Len(pureOut) = 19

\* C10: is_available() answers from the build target alone: the Linux backend
\* exactly on linux, the macOS backend exactly on macos, the Windows backend
\* exactly on windows or linux; every call gives that answer and leaves the
\* rest of the state as it was.
C10_AvailabilityByTarget ==
    /\ pureFn = "LinuxNotifier::is_available" => pureOut = (target = "linux")
    /\ pureFn = "MacOsNotifier::is_available" => pureOut = (target = "macos")
    /\ pureFn = "WindowsNotifier::is_available" =>
          pureOut = (target \in {"windows", "linux"})
    /\ pureFn \in {"LinuxNotifier::is_available", "MacOsNotifier::is_available",
                   "WindowsNotifier::is_available"} =>
          /\ pc = "builder"
          /\ builder = NotificationBuilder_new
          /\ NoSend

C10_Witness ==
    /\ pureFn = "WindowsNotifier::is_available"
    /\ target = "linux"
    /\ pureOut = TRUE

\* C11: detect_platform always returns a Platform: MacOs on macos, Windows
\* on windows, Unknown on any other non-linux target; on linux it returns Wsl
\* exactly when /proc/version can be read and holds "microsoft" or "wsl" in
\* any mix of upper and lower case, and Linux otherwise, also when the file
\* cannot be read. So Wsl is returned on a linux target only.
SameLetter(a, b) ==
    \/ a = b
    \/ <<a, b>> \in { <<"M", "m">>, <<"I", "i">>, <<"C", "c">>, <<"R", "r">>,
                      <<"O", "o">>, <<"S", "s">>, <<"F", "f">>, <<"T", "t">>,
                      <<"W", "w">>, <<"L", "l">> }

Occurs(hay, word) ==
    \E i \in 1..Len(hay) :
        /\ i + Len(word) - 1 <= Len(hay)
        /\ \A k \in 1..Len(word) : SameLetter(hay[i + k - 1], word[k])

C11_DetectPlatform ==
    pureFn = "detect_platform" =>
        /\ pureOut \in Platform
        /\ target = "macos" => pureOut = "MacOs"
        /\ target = "windows" => pureOut = "Windows"
        /\ target \notin {"macos", "windows", "linux"} => pureOut = "Unknown"
        /\ target = "linux" =>
              pureOut = IF /\ procVersion # None
                           /\ \/ Occurs(procVersion[1], <<"m", "i", "c", "r", "o", "s",
                                                          "o", "f", "t">>)
                              \/ Occurs(procVersion[1], <<"w", "s", "l">>)
                        THEN "Wsl" ELSE "Linux"
        /\ pureOut = "Wsl" => target = "linux"

C11_Witness ==
    /\ pureFn = "detect_platform"
    /\ target = "linux"
    /\ procVersion = Some(<<"4", "-", "M", "i", "c", "r", "o", "s", "o", "f", "t">>)
    /\ pureOut = "Wsl"

\* C12: over the five platforms is_windows_like holds exactly for Wsl and
\* Windows and is_unix_like exactly for Linux and MacOs; never both, and
\* neither for Unknown.
C12_PlatformPredicates ==
    pureFn = "platform_predicates" =>
        /\ pureOut.windows_like = (pureOut.platform \in {"Wsl", "Windows"})
        /\ pureOut.unix_like = (pureOut.platform \in {"Linux", "MacOs"})
        /\ ~(pureOut.windows_like /\ pureOut.unix_like)
        /\ pureOut.platform = "Unknown" =>
              ~pureOut.windows_like /\ ~pureOut.unix_like

C12_Witness ==
    /\ pureFn = "platform_predicates"
    /\ pureOut.platform = "Wsl"
    /\ pureOut.windows_like
    /\ ~pureOut.unix_like

\* C13: Args::into_builder carries every flag to the field of the same name
\* unchanged, and gives backend_override = Some(p) exactly when --backend was
\* given, with linux -> Linux, windows -> Windows, macos -> MacOs; so an
\* override that comes from the command line is never Wsl or Unknown.
C13_IntoBuilder ==
    IsSome(args) =>
        LET a == args[1]
        IN  /\ builder["title"] = Some(a.title)
            /\ builder["message"] = Some(a.message)
            /\ builder["timeout"] = Some(a.timeout)
            /\ builder["icon"] = Some(a.icon)
            /\ builder["subtitle"] = Some(a.subtitle)
            /\ builder["sound"] = Some(a.sound)
            /\ IsSome(notification) =>
                  LET n == notification[1]
                  IN  /\ n.title = a.title
                      /\ n.message = a.message
                      /\ n.timeout = a.timeout
                      /\ n.icon = a.icon
                      /\ n.subtitle = a.subtitle
                      /\ n.sound = a.sound
                      /\ a.urgency = "low" => n.urgency = "Low"
                      /\ a.urgency = "normal" => n.urgency = "Normal"
                      /\ a.urgency = "critical" => n.urgency = "Critical"
                      /\ a.backend = None => n.backend_override = None
                      /\ a.backend = Some("linux") => n.backend_override = Some("Linux")
                      /\ a.backend = Some("windows") => n.backend_override = Some("Windows")
                      /\ a.backend = Some("macos") => n.backend_override = Some("MacOs")
                      /\ n.backend_override \notin {Some("Wsl"), Some("Unknown")}

C13_Witness ==
    /\ IsSome(args)
    /\ pc = "built"
    /\ args[1].backend = Some("macos")
    /\ args[1].urgency = "critical"
    /\ notification[1].backend_override = Some("MacOs")
    /\ notification[1].urgency = "Critical"

\* the script of the macOS backend's invocation, when there was one
MacOsCalls == {i \in DOMAIN invoked : invoked[i].backend = "MacOsNotifier"}
ScriptOf(i) == invoked[i].args[2]

\* one-pass AppleScript escaping of a text: a backslash before every
\* backslash and every double-quote
RECURSIVE Escaped(_)
Escaped(s) ==
    IF s = <<>> THEN <<>>
    ELSE (IF Special(Head(s)) THEN <<"\\", Head(s)>> ELSE <<Head(s)>>)
         \o Escaped(Tail(s))

ScriptStart(n) ==
    <<"d", "i", "s", "p", "l", "a", "y", " ", "n", "o", "t", "i", "f", "i", "c",
      "a", "t", "i", "o", "n", " ", "\"">>
    \o Escaped(n.message)
    \o <<"\"", " ", "w", "i", "t", "h", " ", "t", "i", "t", "l", "e", " ", "\"">>
    \o Escaped(n.title) \o <<"\"">>

SubtitleClause(n) ==
    <<" ", "s", "u", "b", "t", "i", "t", "l", "e", " ", "\"">>
    \o Escaped(n.subtitle) \o <<"\"">>

SoundClause(text) ==
    <<" ", "s", "o", "u", "n", "d", " ", "n", "a", "m", "e", " ", "\"">>
    \o text \o <<"\"">>

\* C14: in the script of the macOS backend message, title, subtitle and sound
\* are all escaped before they are put in, so the script is the template
\* filled with the four escaped texts.
C14_AllFieldsEscaped ==
    \A i \in MacOsCalls :
        LET n == notification[1]
        IN  ScriptOf(i) =
                ScriptStart(n)
                \o (IF n.subtitle # <<>> THEN SubtitleClause(n) ELSE <<>>)
                \o SoundClause(Escaped(n.sound))

\* the result a backend's send returns for the outcome of its one call
ExpectedResult(call) ==
    LET o == call.outcome
    IN  IF call.backend = "LinuxNotifier"
        THEN IF o.ok THEN [kind |-> "Ok"]
             ELSE [kind |-> "SendFailed", backend |-> "Linux", reason |-> o.err]
        ELSE IF ~o.spawned THEN [kind |-> "CommandExecution", err |-> o.ioerr]
        ELSE IF o.success THEN [kind |-> "Ok"]
        ELSE [kind |-> "SendFailed",
              backend |-> IF call.backend = "MacOsNotifier" THEN "macOS" ELSE "Windows",
              reason |-> [i \in DOMAIN o.stderr |->
                            IF o.stderr[i] = "<invalid>" THEN "<U+FFFD>"
                            ELSE o.stderr[i]]]

\* C15: send() goes build -> select_notifier -> diagnostic -> notifier.send.
\* The diagnostic is written and the backend invoked only after the selection
\* with its availability check succeeded, the diagnostic comes before the
\* backend call, the backend is invoked at most once, and what it returns is
\* what send() returns.
C15_State ==
    /\ Len(stderr) <= 1
    /\ Len(invoked) <= 1
    /\ Selected => IsSome(notification)
    /\ stderr # <<>> =>
          /\ Selected
          /\ notifier \in Notifiers
          /\ ~Unavailable(notifier)
          /\ pc \in {"notified", "done"}
    /\ invoked # <<>> =>
          /\ Len(stderr) = 1
          /\ pc = "done"
          /\ invoked[1].backend = notifier
          /\ result = Some(ExpectedResult(invoked[1]))
    /\ (pc = "done" /\ invoked = <<>>) =>
          /\ stderr = <<>>
          /\ IsSome(result)
          /\ result[1].kind = "UnsupportedPlatform"

C15_Step ==
    /\ pc' # pc =>
          <<pc, pc'>> \in { <<"builder", "built">>, <<"built", "selected">>,
                            <<"built", "done">>, <<"selected", "notified">>,
                            <<"notified", "done">>, <<"built", "builder">>,
                            <<"done", "builder">> }
    /\ Len(stderr') > Len(stderr) => pc = "selected" /\ invoked = <<>>
    /\ Len(invoked') > Len(invoked) => pc = "notified" /\ Len(stderr) = 1

C15_SendOrder == []C15_State /\ [][C15_Step]_vars

C15_Witness ==
    /\ pc = "done"
    /\ Len(stderr) = 1
    /\ Len(invoked) = 1
    /\ result[1].kind = "SendFailed"

\* C16: for the macOS and the Windows backend the result is decided by the
\* outcome of the interpreter alone: not started -> CommandExecution with the
\* I/O error; exit status zero -> Ok; non-zero -> SendFailed with the backend
\* "macOS" / "Windows" and the captured standard error as the reason; and a
\* finished send of these backends has made exactly one Command::output() call.
C16_SubprocessResult ==
    (pc = "done" /\ notifier \in {"MacOsNotifier", "WindowsNotifier"}
       /\ ~Unavailable(notifier)) =>
        /\ Len(invoked) = 1
        /\ invoked[1].program
             = (IF notifier = "MacOsNotifier" THEN "osascript" ELSE "powershell.exe")
        /\ LET o == invoked[1].outcome
               name == IF notifier = "MacOsNotifier" THEN "macOS" ELSE "Windows"
           IN  /\ ~o.spawned => result = Some([kind |-> "CommandExecution", err |-> o.ioerr])
               /\ (o.spawned /\ o.success) => result = Some([kind |-> "Ok"])
               /\ (o.spawned /\ ~o.success) =>
                     /\ result[1].kind = "SendFailed"
                     /\ result[1].backend = name
                     /\ Len(result[1].reason) = Len(o.stderr)
                     /\ \A i \in DOMAIN o.stderr :
                           result[1].reason[i] = IF o.stderr[i] = "<invalid>"
                                                 THEN "<U+FFFD>" ELSE o.stderr[i]

C16_Witness ==
    /\ pc = "done"
    /\ notifier = "WindowsNotifier"
    /\ Len(invoked) = 1
    /\ invoked[1].outcome.spawned
    /\ ~invoked[1].outcome.success
    /\ invoked[1].outcome.stderr # <<>>
    /\ result[1].kind = "SendFailed"
    /\ result[1].backend = "Windows"

\* C17: the macOS script is  display notification "<message>" with title
\* "<title>",  then  subtitle "<subtitle>"  exactly when the subtitle is not
\* empty, then always  sound name "<sound>"  as the last clause (message,
\* title and subtitle escaped, the sound as given); for title Test and
\* message Hello it starts with  display notification "Hello" with title "Test".
C17_ScriptShape ==
    \A i \in MacOsCalls :
        LET n == notification[1]
        IN  /\ ScriptOf(i) =
                   ScriptStart(n)
                   \o (IF n.subtitle # <<>> THEN SubtitleClause(n) ELSE <<>>)
                   \o SoundClause(n.sound)
            /\ (n.title = <<"T", "e", "s", "t">> /\ n.message = <<"H", "e", "l", "l", "o">>) =>
                  SubSeq(ScriptOf(i), 1, 46) =
                     <<"d", "i", "s", "p", "l", "a", "y", " ", "n", "o", "t", "i", "f",
                       "i", "c", "a", "t", "i", "o", "n", " ", "\"", "H", "e", "l", "l",
                       "o", "\"", " ", "w", "i", "t", "h", " ", "t", "i", "t", "l", "e",
                       " ", "\"", "T", "e", "s", "t", "\"">>

C17_Witness ==
    /\ MacOsCalls # {}
    /\ notification[1].subtitle = <<>>
    /\ ScriptOf(1) =
         <<"d", "i", "s", "p", "l", "a", "y", " ", "n", "o", "t", "i", "f", "i", "c",
           "a", "t", "i", "o", "n", " ", "\"", "H", "e", "l", "l", "o", "\"", " ", "w",
           "i", "t", "h", " ", "t", "i", "t", "l", "e", " ", "\"", "T", "e", "s", "t",
           "\"", " ", "s", "o", "u", "n", "d", " ", "n", "a", "m", "e", " ", "\"", "d",
           "e", "f", "a", "u", "l", "t", "\"">>

\* C18: without an override the availability check never rejects the selected
\* backend: whatever detect_platform returns on a target maps to a backend
\* that is available on that target, so the only dispatch failure is the one
\* for the Unknown platform.
C18_DetectedIsAvailable ==
    (Selected /\ Override = None) =>
        /\ notifier \in Notifiers => ~Unavailable(notifier)
        /\ (IsSome(result) /\ result[1].kind = "UnsupportedPlatform") =>
              /\ platform = Some("Unknown")
              /\ notifier = NoNotifier

C18_Witness ==
    /\ pc = "selected"
    /\ Override = None
    /\ target = "linux"
    /\ platform = Some("Wsl")
    /\ notifier = "WindowsNotifier"
    /\ result = None

\* C19: the backend named in the diagnostic line is the selected one, which is
\* the one whose send is invoked, and the platform named in it is the one
\* select_notifier used, provided /proc/version read the same in both
\* detections (with an override, or off linux, it is not read at all).
C19_DiagnosticMatches ==
    stderr # <<>> =>
        /\ stderr[1].backend =
             (CASE notifier = "LinuxNotifier" -> "Linux (D-Bus)"
                [] notifier = "MacOsNotifier" -> "macOS (osascript)"
                [] notifier = "WindowsNotifier" -> "Windows (PowerShell)")
        /\ invoked # <<>> => invoked[1].backend = notifier
        /\ (Len(reads) < 2 \/ reads[1] = reads[2]) =>
              stderr[1].platform = Display(platform[1])

C19_Witness ==
    /\ stderr # <<>>
    /\ Len(reads) = 2
    /\ reads[1] = reads[2]
    /\ platform = Some("Wsl")
    /\ stderr[1].platform = "WSL (Windows Subsystem for Linux)"

\* C20: the escaped text cannot be broken out of and loses nothing. In the
\* output of escape_applescript a maximal run of backslashes is of odd length
\* when a double-quote follows it and of even length otherwise, and every
\* double-quote has such a run before it; in the output of escape_powershell
\* every maximal run of single-quotes is of even length; and undoing the
\* substitutions gives back the input, so both functions are injective.
RunsOf(s, c) ==
    { <<i, j>> \in (DOMAIN s) \X (DOMAIN s) :
        /\ i <= j
        /\ \A k \in i..j : s[k] = c
        /\ i = 1 \/ s[i - 1] # c
        /\ j = Len(s) \/ s[j + 1] # c }

RECURSIVE UndoApplescript(_)
UndoApplescript(s) ==
    IF s = <<>> THEN <<>>
    ELSE IF Head(s) = "\\" /\ Len(s) >= 2
         THEN <<s[2]>> \o UndoApplescript(SubSeq(s, 3, Len(s)))
         ELSE <<Head(s)>> \o UndoApplescript(Tail(s))

RECURSIVE UndoPowershell(_)
UndoPowershell(s) ==
    IF s = <<>> THEN <<>>
    ELSE IF Head(s) = "'" /\ Len(s) >= 2 /\ s[2] = "'"
         THEN <<"'">> \o UndoPowershell(SubSeq(s, 3, Len(s)))
         ELSE <<Head(s)>> \o UndoPowershell(Tail(s))

C20_EscapingSound ==
    /\ pureFn = "escape_applescript" =>
          /\ \A r \in RunsOf(pureOut, "\\") :
                LET odd == (r[2] - r[1] + 1) % 2 = 1
                IN  odd <=> (r[2] < Len(pureOut) /\ pureOut[r[2] + 1] = "\"")
          /\ \A q \in DOMAIN pureOut :
                pureOut[q] = "\"" => (q > 1 /\ pureOut[q - 1] = "\\")
          /\ UndoApplescript(pureOut) = pureIn
    /\ pureFn = "escape_powershell" =>
          /\ \A r \in RunsOf(pureOut, "'") : (r[2] - r[1] + 1) % 2 = 0
          /\ UndoPowershell(pureOut) = pureIn

C20_Witness ==
    /\ pureFn = "escape_applescript"
    /\ pureIn = <<"\\", "\"", "\\">>
    /\ pureOut = <<"\\", "\\", "\\", "\"", "\\", "\\">>

====
